---------------------------- MODULE Spec2Model ----------------------------
(***************************************************************************)
(* Session lifecycle of blk.game.client.ClientGame (clientgame.js): the    *)
(* asynchronous setup chain, the main menu, connectToHost and the         *)
(* connector outcomes.                                                     *)
(*                                                                         *)
(* Every handler of the source is one action.  goog.async.Deferred runs    *)
(* the callbacks of an already fired deferred synchronously inside         *)
(* addCallbacks, so the failure handler of an invalid address runs inside  *)
(* connectToHost; the order of the calls a handler makes is kept in the    *)
(* attempt's log.                                                          *)
(*                                                                         *)
(* UiSpec adds the popups and toggleFullscreen of the same file; CtlSpec   *)
(* is blk.sim.controllers.FpsController.executeCommand                     *)
(* (fpscontroller.js) with the simulation state it reads and writes.       *)
(***************************************************************************)
EXTENDS Naturals, Sequences, FiniteSets

\* Largest number of connectToHost calls of one run.
MaxAttempts == 2

\* Largest number of popups open at once.
MaxPopups == 2

\* Largest number of errors on display when a screen shows one more.
MaxErrors == 1

\* Largest number of connectToHost calls of a run that exercises the popups.
MaxUiAttempts == 1

VARIABLES
  launchHost,     \* launchOptions.host: an address text, or NoHost
  settingsBound,  \* whether the free identifier `settings` of line 552 is bound
  assertsEnabled, \* goog.asserts.ENABLE_ASSERTS of the build
  graphicsSetup,  \* the deferred of graphicsContext_.setup
  renderSetup,    \* the deferred of renderState_.setup
  calls,          \* how often each setup routine has been called
  ticking,        \* startTicking() has been called
  screen,         \* the screen set on screenManager_ by setScreen/popAllScreens
  inGame,         \* this.inGame_
  gameSession,    \* attempt whose session the game screen was built with, 0 = none
  attempts,       \* one record per connectToHost call (its closure)
  errors,         \* the error surfaces shown, in order
  buttonIdGlobal, \* what the free identifier `buttonId` of line 485 is bound to
  settings,       \* this.settings
  mouse,          \* inputManager_.mouse
  musicMuted,     \* musicController_ muted
  fullScreen,     \* display_.isFullScreen
  inputEnabled,   \* inputManager_ enabled
  popups,         \* how many settings and help popups are open
  lastPopup,      \* what the handler of the last resolved popup did
  target,         \* each controller's bound target, or NoTarget
  heldTool,       \* each entity's held tool, or NoTool
  rotation,       \* each entity's state rotation
  tmpQuat,        \* FpsController.tmpQuat_, shared by every controller
  replay,         \* a second run of the same commands from the same start
  lastExec        \* what the last executeCommand did

uiVars == <<buttonIdGlobal, settings, mouse, musicMuted, fullScreen, inputEnabled,
            popups, lastPopup>>

ctlVars == <<target, heldTool, rotation, tmpQuat, replay, lastExec>>

vars == <<launchHost, settingsBound, assertsEnabled, graphicsSetup, renderSetup,
          calls, ticking, screen, inGame, gameSession, attempts, errors, uiVars,
          ctlVars>>

---------------------------------------------------------------------------
\* Address texts "scheme://host:port", each part possibly missing.

Schemes == {"", "ws", "local", "ftp"}
Hosts == {"", "h"}
PortTexts == {"", "0", "80"}

Addresses == [scheme : Schemes, host : Hosts, port : PortTexts]

NoHost == [scheme |-> "none", host |-> "none", port |-> "none"]

\* Failure reasons a connector reports.
Reasons == {"refused"}

\* JavaScript values read back from goog.Uri.
JsNull == [t |-> "null"]
JsStr(s) == [t |-> "str", s |-> s]
JsNum(s) == [t |-> "num", s |-> s]

\* goog.Uri.setPort: a missing port leaves port_ null, a port text becomes a
\* number.
ParsePort(text) == IF text = "" THEN JsNull ELSE JsNum(text)

\* new goog.Uri(address): getScheme() and getDomain() are strings ('' when
\* missing), getPort() is a number or null.
ParseUri(address) ==
  [scheme |-> JsStr(address.scheme),
   domain |-> JsStr(address.host),
   port   |-> ParsePort(address.port)]

\* x != '' of JavaScript: '' and 0 are loosely equal to '', null is not.
LooseNeqEmpty(x) ==
  CASE x.t = "str"  -> x.s # ""
    [] x.t = "num"  -> x.s # "0"
    [] x.t = "null" -> TRUE

ValidAddress(uri) ==
  /\ LooseNeqEmpty(uri.scheme)
  /\ LooseNeqEmpty(uri.domain)
  /\ LooseNeqEmpty(uri.port)

---------------------------------------------------------------------------
\* The closure of one connectToHost call.

NoArg == [kind |-> "none", reason |-> "none"]
InvalidAddressArg == [kind |-> "InvalidAddress", reason |-> "Invalid address format"]
UnsupportedSchemeArg(scheme) == [kind |-> "UnsupportedScheme", reason |-> scheme]
ConnectionFailureArg(reason) == [kind |-> "ConnectionFailure", reason |-> reason]

\* StatusScreen.showConnecting and new goog.async.Deferred().
NewAttempt(address, origin) ==
  [address   |-> address,
   origin    |-> origin,
   deferred  |-> "pending",
   arg       |-> NoArg,
   connector |-> "none",
   dialog    |-> "shown",
   handler   |-> FALSE,
   log       |-> <<"showConnecting">>]

Errback(a, arg) ==
  [a EXCEPT !.deferred = "err", !.arg = arg, !.log = Append(@, "errback")]

Callback(a) ==
  [a EXCEPT !.deferred = "ok", !.log = Append(@, "callback")]

\* gf.net.connect(...).chainDeferred(deferred): the outcome arrives later.
ConnectToRemoteHost(a) ==
  [a EXCEPT !.connector = "remote", !.log = Append(@, "connectRemote")]

\* The body of connectToLocalHost_ is commented out: the deferred is never
\* fired.
ConnectToLocalHost(a) ==
  [a EXCEPT !.connector = "local", !.log = Append(@, "connectLocal")]

\* switch (uri.getScheme())
Dispatch(a, uri) ==
  CASE uri.scheme.s = "ws"    -> ConnectToRemoteHost(a)
    [] uri.scheme.s = "local" -> ConnectToLocalHost(a)
    [] OTHER                  -> Errback(a, UnsupportedSchemeArg(uri.scheme.s))

\* The errback given to deferred.addCallbacks.
FailureHandler(a) ==
  [a EXCEPT !.dialog = "canceled",
            !.log = @ \o <<"cancel", "showConnectionFailed">>]

\* The callback given to deferred.addCallbacks; entered is FALSE when the
\* assertion of enterGame_ throws.
SuccessHandler(a, entered) ==
  [a EXCEPT !.dialog = "canceled",
            !.log = @ \o (IF entered THEN <<"cancel", "enterGame", "setGameScreen">>
                                     ELSE <<"cancel", "assertFailed">>)]

\* deferred.addCallbacks(...): a deferred that has fired runs its handler at
\* once (only the errback can have fired inside connectToHost).
AddCallbacks(a) ==
  LET b == [a EXCEPT !.handler = TRUE]
  IN IF b.deferred = "err" THEN FailureHandler(b) ELSE b

\* The ReferenceError of reading the unbound `settings`.
Throw(a) == [a EXCEPT !.log = Append(@, "throw")]

\* The attempt as connectToHost leaves it.
ConnectAttempt(address, origin) ==
  LET uri == ParseUri(address)
      a0  == NewAttempt(address, origin)
      a1  == IF ~ValidAddress(uri) THEN Errback(a0, InvalidAddressArg) ELSE a0
      a2  == IF a1.deferred = "pending" THEN Dispatch(a1, uri) ELSE a1
  IN IF ~settingsBound THEN Throw(a1) ELSE AddCallbacks(a2)

\* Whether a handler made the call e.
Has(log, e) == \E k \in 1..Len(log) : log[k] = e

\* connectToHost: what it does to the attempts and to the errors shown.
ConnectToHost(address, origin) ==
  LET a == ConnectAttempt(address, origin)
  IN /\ attempts' = Append(attempts, a)
     /\ errors' = IF Has(a.log, "showConnectionFailed")
                    THEN Append(errors, [location |-> "networking", arg |-> a.arg])
                    ELSE errors

---------------------------------------------------------------------------
\* The constructor, up to its call of beginSetup_.

\* The fields the session lifecycle does not read, at the values the
\* constructor leaves them.
NoPopup ==
  [kind |-> "none", outcome |-> "none", buttonid |-> "none",
   refreshed |-> FALSE, post |-> FALSE, threw |-> FALSE]

UiIdle ==
  /\ mouse = [lockOnFocus |-> FALSE, locked |-> FALSE]
  /\ musicMuted = FALSE
  /\ fullScreen = FALSE
  /\ inputEnabled = TRUE
  /\ popups = [settings |-> 0, help |-> 0]
  /\ lastPopup = NoPopup

\* The simulation's entities, controllers and tools; quaternion values.
Entities == {"e1", "e2"}
Controllers == {"c1", "c2"}
Tools == {"t1"}
Quats == {"q1", "q2"}
NoTarget == "noTarget"
NoTool == "noTool"

\* goog.vec.Quaternion.createFloat32(): all components zero.
ZeroQuat == "zero"

NoExec ==
  [controller |-> "none",
   command |-> [kind |-> "none", orientation |-> "none",
                actions |-> [set |-> FALSE, list |-> << >>]],
   target |-> NoTarget, uses |-> << >>, raised |-> FALSE,
   rebound |-> FALSE, interleaved |-> FALSE]

\* No simulation yet: nothing bound, nothing held, the scratch as created.
CtlIdle ==
  /\ target = [c \in Controllers |-> NoTarget]
  /\ heldTool = [e \in Entities |-> NoTool]
  /\ rotation = [e \in Entities |-> "q1"]
  /\ tmpQuat = ZeroQuat
  /\ replay = [rotation |-> rotation, tmpQuat |-> ZeroQuat, uses |-> << >>]
  /\ lastExec = NoExec

Init ==
  /\ CtlIdle
  /\ launchHost \in Addresses \cup {NoHost}
  /\ settingsBound \in BOOLEAN
  /\ assertsEnabled \in BOOLEAN
  /\ buttonIdGlobal = "unbound"
  /\ settings = [mouseLock |-> FALSE, musicMuted |-> FALSE]
  /\ UiIdle
  /\ graphicsSetup = "idle"
  /\ renderSetup = "idle"
  /\ calls = [graphicsSetup |-> 0, renderSetup |-> 0, setupSucceeded |-> 0,
              setupFailed |-> 0, popSplash |-> 0]
  /\ ticking = FALSE
  /\ screen = "none"
  /\ inGame = FALSE
  /\ gameSession = 0
  /\ attempts = << >>
  /\ errors = << >>

\* beginSetup_: splash screen, graphicsContext_.setup(attributes).
BeginSetup ==
  /\ graphicsSetup = "idle"
  /\ screen' = "splash"
  /\ graphicsSetup' = "pending"
  /\ calls' = [calls EXCEPT !.graphicsSetup = @ + 1]
  /\ UNCHANGED <<ctlVars, uiVars, launchHost, settingsBound, assertsEnabled, renderSetup, ticking,
                 inGame, gameSession, attempts, errors>>

\* setupFailed_ that drops to the main menu after the error.
SetupFailed_ShowsMenu(message) ==
  /\ screen' = "mainMenu"
  /\ calls' = [calls EXCEPT !.setupFailed = @ + 1,
                            !.popSplash = @ + (IF screen = "splash" THEN 1 ELSE 0)]
  /\ errors' = Append(errors, [location |-> "setup",
                               arg |-> [kind |-> "SetupFailure", reason |-> message]])
  /\ UNCHANGED <<ticking, inGame, gameSession, attempts>>

\* setupFailed_(message, arg)
SetupFailed(message) ==
  /\ screen' = "none"
  /\ calls' = [calls EXCEPT !.setupFailed = @ + 1,
                            !.popSplash = @ + (IF screen = "splash" THEN 1 ELSE 0)]
  /\ errors' = Append(errors, [location |-> "setup",
                               arg |-> [kind |-> "SetupFailure", reason |-> message]])
  /\ UNCHANGED <<ticking, inGame, gameSession, attempts>>

\* setupSucceeded_ that ignores launchOptions.host.
SetupSucceeded_AlwaysMenu ==
  /\ calls' = [calls EXCEPT !.setupSucceeded = @ + 1,
                            !.popSplash = @ + (IF screen = "splash" THEN 1 ELSE 0)]
  /\ ticking' = TRUE
  /\ screen' = "mainMenu"
  /\ UNCHANGED <<attempts, errors, inGame, gameSession>>

\* setupSucceeded_
SetupSucceeded ==
  /\ calls' = [calls EXCEPT !.setupSucceeded = @ + 1,
                            !.popSplash = @ + (IF screen = "splash" THEN 1 ELSE 0)]
  /\ ticking' = TRUE
  /\ IF launchHost # NoHost
       THEN /\ screen' = "none"
            /\ ConnectToHost(launchHost, "launch")
       ELSE /\ screen' = "mainMenu"
            /\ UNCHANGED <<attempts, errors>>
  /\ UNCHANGED <<inGame, gameSession>>

\* A graphics callback that goes on without setting up the render state.
GraphicsSetupSucceeded_SkipsRender ==
  /\ graphicsSetup = "pending"
  /\ graphicsSetup' = "ok"
  /\ SetupSucceeded
  /\ UNCHANGED <<ctlVars, uiVars, launchHost, settingsBound, assertsEnabled, renderSetup>>

\* The callback of graphicsContext_.setup: renderState_.setup().
GraphicsSetupSucceeded ==
  /\ graphicsSetup = "pending"
  /\ graphicsSetup' = "ok"
  /\ renderSetup' = "pending"
  /\ calls' = [calls EXCEPT !.renderSetup = @ + 1]
  /\ UNCHANGED <<ctlVars, uiVars, launchHost, settingsBound, assertsEnabled, ticking, screen,
                 inGame, gameSession, attempts, errors>>

\* A graphics errback that still sets up the render state.
GraphicsSetupFailed_StartsRender ==
  /\ graphicsSetup = "pending"
  /\ graphicsSetup' = "err"
  /\ renderSetup' = "pending"
  /\ calls' = [calls EXCEPT !.renderSetup = @ + 1]
  /\ UNCHANGED <<ctlVars, uiVars, launchHost, settingsBound, assertsEnabled, ticking, screen,
                 inGame, gameSession, attempts, errors>>

\* The errback of graphicsContext_.setup.
GraphicsSetupFailed ==
  /\ graphicsSetup = "pending"
  /\ graphicsSetup' = "err"
  /\ SetupFailed("Unable to create the graphics context")
  /\ UNCHANGED <<ctlVars, uiVars, launchHost, settingsBound, assertsEnabled, renderSetup>>

\* The callback of renderState_.setup.
RenderSetupSucceeded ==
  /\ renderSetup = "pending"
  /\ renderSetup' = "ok"
  /\ SetupSucceeded
  /\ UNCHANGED <<ctlVars, uiVars, launchHost, settingsBound, assertsEnabled, graphicsSetup>>

\* The errback of renderState_.setup.
RenderSetupFailed ==
  /\ renderSetup = "pending"
  /\ renderSetup' = "err"
  /\ SetupFailed("Unable to setup graphics resources")
  /\ UNCHANGED <<ctlVars, uiVars, launchHost, settingsBound, assertsEnabled, graphicsSetup>>

\* The screens that call connectToHost and gotoMainMenuScreen exist only
\* once setupSucceeded_ has run.
UiAvailable == calls.setupSucceeded > 0

\* connectToHost(address) called from a screen.
UserConnectToHost(address) ==
  /\ UiAvailable
  /\ Len(attempts) < MaxAttempts
  /\ ConnectToHost(address, "menu")
  /\ UNCHANGED <<ctlVars, uiVars, launchHost, settingsBound, assertsEnabled, graphicsSetup,
                 renderSetup, calls, ticking, screen, inGame, gameSession>>

\* gotoMainMenuScreen that replaces the screen without exitGame_.
GotoMainMenuScreen_KeepsFlag ==
  /\ UiAvailable
  /\ screen' = "mainMenu"
  /\ gameSession' = 0
  /\ UNCHANGED <<ctlVars, uiVars, launchHost, settingsBound, assertsEnabled, graphicsSetup,
                 renderSetup, calls, ticking, inGame, attempts, errors>>

\* gotoMainMenuScreen: exitGame_ when in game, then setScreen(mainMenuScreen),
\* which replaces the game screen.
GotoMainMenuScreen ==
  /\ UiAvailable
  /\ inGame' = FALSE
  /\ screen' = "mainMenu"
  /\ gameSession' = 0
  /\ UNCHANGED <<ctlVars, uiVars, launchHost, settingsBound, assertsEnabled, graphicsSetup,
                 renderSetup, calls, ticking, attempts, errors>>

\* enterGame_: its assertion throws when already in game and asserts are
\* compiled in.
CanEnterGame == ~(inGame /\ assertsEnabled)

\* The remote connector reports a session: the success callback of attempt i.
RemoteConnected(i) ==
  /\ i \in 1..Len(attempts)
  /\ attempts[i].connector = "remote"
  /\ attempts[i].deferred = "pending"
  /\ attempts[i].handler
  /\ attempts' = [attempts EXCEPT ![i] = SuccessHandler(Callback(@), CanEnterGame)]
  /\ IF CanEnterGame
       THEN /\ inGame' = TRUE
            /\ screen' = "game"
            /\ gameSession' = i
       ELSE UNCHANGED <<inGame, screen, gameSession>>
  /\ UNCHANGED <<ctlVars, uiVars, launchHost, settingsBound, assertsEnabled, graphicsSetup,
                 renderSetup, calls, ticking, errors>>

\* The remote connector reports a failure: the errback of attempt i.
RemoteFailed(i, reason) ==
  /\ i \in 1..Len(attempts)
  /\ attempts[i].connector = "remote"
  /\ attempts[i].deferred = "pending"
  /\ attempts[i].handler
  /\ attempts' = [attempts EXCEPT
                    ![i] = FailureHandler(Errback(@, ConnectionFailureArg(reason)))]
  /\ errors' = Append(errors, [location |-> "networking",
                               arg |-> ConnectionFailureArg(reason)])
  /\ UNCHANGED <<ctlVars, uiVars, launchHost, settingsBound, assertsEnabled, graphicsSetup,
                 renderSetup, calls, ticking, screen, inGame, gameSession>>

Next ==
  \/ BeginSetup
  \/ GraphicsSetupSucceeded
  \/ GraphicsSetupFailed
  \/ RenderSetupSucceeded
  \/ RenderSetupFailed
  \/ \E address \in Addresses : UserConnectToHost(address)
  \/ GotoMainMenuScreen
  \/ \E i \in 1..MaxAttempts : RemoteConnected(i)
  \/ \E i \in 1..MaxAttempts, reason \in Reasons : RemoteFailed(i, reason)

Spec == Init /\ [][Next]_vars

\* The remote connector reports exactly one outcome for each connect; the
\* setup deferreds resolve.
FairSpec ==
  /\ Spec
  /\ WF_vars(BeginSetup)
  /\ WF_vars(GraphicsSetupSucceeded \/ GraphicsSetupFailed)
  /\ WF_vars(RenderSetupSucceeded \/ RenderSetupFailed)
  /\ \A i \in 1..MaxAttempts :
       WF_vars(RemoteConnected(i) \/ \E reason \in Reasons : RemoteFailed(i, reason))

---------------------------------------------------------------------------
\* Fullscreen, the settings and help popups and the error popup.  playClick
\* only plays a sound and is left out.

ButtonIds == {"save", "cancel"}

coordVars == <<launchHost, settingsBound, assertsEnabled, graphicsSetup, renderSetup,
               calls, ticking, screen, inGame, gameSession, attempts>>

\* toggleFullscreen; supportsLocking is inputManager_.mouse.supportsLocking.
ToggleFullscreen(supportsLocking) ==
  /\ fullScreen' = ~fullScreen
  /\ mouse' = IF inGame /\ ~fullScreen /\ supportsLocking /\ settings.mouseLock
                THEN [mouse EXCEPT !.locked = TRUE]
                ELSE mouse
  /\ UNCHANGED <<ctlVars, coordVars, errors, buttonIdGlobal, settings, musicMuted,
                 inputEnabled, popups, lastPopup>>

\* prePopup_: the input manager after it.
PrePopup == IF inGame THEN FALSE ELSE inputEnabled

\* postPopup_: the input manager after it.
PostPopup == IF inGame THEN TRUE ELSE inputEnabled

\* refreshSettings_ (setSensitivity copies a setting like setLockOnFocus).
RefreshSettings ==
  /\ mouse' = [lockOnFocus |-> settings.mouseLock,
               locked |-> inGame /\ settings.mouseLock]
  /\ musicMuted' = settings.musicMuted

OpenPopups == popups.settings + popups.help

\* showSettingsPopup up to pushScreen.
ShowSettingsPopup ==
  /\ UiAvailable
  /\ OpenPopups < MaxPopups
  /\ inputEnabled' = PrePopup
  /\ popups' = [popups EXCEPT !.settings = @ + 1]
  /\ UNCHANGED <<ctlVars, coordVars, errors, buttonIdGlobal, settings, mouse, musicMuted,
                 fullScreen, lastPopup>>

\* settingsScreen.deferred resolves.  addCallback gives no errback, so the
\* handler runs for outcome "callback" only; it reads the free identifier
\* buttonId, not its parameter buttonid, and throws where that is unbound.
SettingsResolved(outcome, buttonid) ==
  /\ popups.settings > 0
  /\ popups' = [popups EXCEPT !.settings = @ - 1]
  /\ LET ran       == outcome = "callback"
         threw     == ran /\ buttonIdGlobal = "unbound"
         refreshed == ran /\ buttonIdGlobal = "save"
         post      == ran /\ ~threw
     IN /\ lastPopup' = [kind |-> "settings", outcome |-> outcome,
                         buttonid |-> buttonid, refreshed |-> refreshed,
                         post |-> post, threw |-> threw]
        /\ IF refreshed THEN RefreshSettings ELSE UNCHANGED <<mouse, musicMuted>>
        /\ inputEnabled' = IF post THEN PostPopup ELSE inputEnabled
  /\ UNCHANGED <<ctlVars, coordVars, errors, buttonIdGlobal, settings, fullScreen>>

\* showHelpPopup that also leaves the game.
ShowHelpPopup_LeavesGame ==
  /\ UiAvailable
  /\ OpenPopups < MaxPopups
  /\ inputEnabled' = PrePopup
  /\ popups' = [popups EXCEPT !.help = @ + 1]
  /\ inGame' = FALSE
  /\ UNCHANGED <<ctlVars, launchHost, settingsBound, assertsEnabled, graphicsSetup,
                 renderSetup, calls, ticking, screen, gameSession, attempts,
                 errors, buttonIdGlobal, settings, mouse, musicMuted, fullScreen,
                 lastPopup>>

\* showHelpPopup up to pushScreen.
ShowHelpPopup ==
  /\ UiAvailable
  /\ OpenPopups < MaxPopups
  /\ inputEnabled' = PrePopup
  /\ popups' = [popups EXCEPT !.help = @ + 1]
  /\ UNCHANGED <<ctlVars, coordVars, errors, buttonIdGlobal, settings, mouse, musicMuted,
                 fullScreen, lastPopup>>

\* helpScreen.deferred resolves: addBoth runs postPopup_ for either outcome.
HelpResolved(outcome) ==
  /\ popups.help > 0
  /\ popups' = [popups EXCEPT !.help = @ - 1]
  /\ lastPopup' = [kind |-> "help", outcome |-> outcome, buttonid |-> "none",
                   refreshed |-> FALSE, post |-> TRUE, threw |-> FALSE]
  /\ inputEnabled' = PostPopup
  /\ UNCHANGED <<ctlVars, coordVars, errors, buttonIdGlobal, settings, mouse, musicMuted,
                 fullScreen>>

\* showErrorPopup(location, message) called from a screen.
ShowErrorPopup(location, message) ==
  /\ UiAvailable
  /\ Len(errors) < MaxErrors
  /\ errors' = Append(errors, [location |-> location,
                               arg |-> [kind |-> "Reported", reason |-> message]])
  /\ UNCHANGED <<ctlVars, coordVars, uiVars>>

\* The address tried while the popups are exercised.
UiAddress == [scheme |-> "ws", host |-> "h", port |-> "80"]

\* connectToHost(address) called from a screen, in a run that exercises the
\* popups.
UiConnectToHost(address) ==
  /\ Len(attempts) < MaxUiAttempts
  /\ UserConnectToHost(address)

UiInit ==
  /\ CtlIdle
  /\ launchHost = NoHost
  /\ settingsBound \in BOOLEAN
  /\ assertsEnabled \in BOOLEAN
  /\ buttonIdGlobal \in ButtonIds \cup {"unbound"}
  /\ settings \in [mouseLock : BOOLEAN, musicMuted : {TRUE}]
  /\ UiIdle
  /\ graphicsSetup = "idle"
  /\ renderSetup = "idle"
  /\ calls = [graphicsSetup |-> 0, renderSetup |-> 0, setupSucceeded |-> 0,
              setupFailed |-> 0, popSplash |-> 0]
  /\ ticking = FALSE
  /\ screen = "none"
  /\ inGame = FALSE
  /\ gameSession = 0
  /\ attempts = << >>
  /\ errors = << >>

UiNext ==
  \/ BeginSetup
  \/ GraphicsSetupSucceeded
  \/ GraphicsSetupFailed
  \/ RenderSetupSucceeded
  \/ RenderSetupFailed
  \/ UiConnectToHost(UiAddress)
  \/ GotoMainMenuScreen
  \/ \E i \in 1..MaxAttempts : RemoteConnected(i)
  \/ \E i \in 1..MaxAttempts, reason \in Reasons : RemoteFailed(i, reason)
  \/ \E supportsLocking \in BOOLEAN : ToggleFullscreen(supportsLocking)
  \/ ShowSettingsPopup
  \/ \E outcome \in {"callback", "errback"}, buttonid \in ButtonIds :
       SettingsResolved(outcome, buttonid)
  \/ ShowHelpPopup
  \/ \E outcome \in {"callback", "errback"} : HelpResolved(outcome)
  \/ ShowErrorPopup("networking", "disconnected")

UiSpec == UiInit /\ [][UiNext]_vars

---------------------------------------------------------------------------
\* blk.sim.controllers.FpsController (fpscontroller.js).

\* Longest action list of a command.
MaxActions == 2

ActionNames == {"use"}

ActionLists == UNION {[1..n -> ActionNames] : n \in 0..MaxActions}

\* command.actions: a list (truthy in JavaScript even when empty), or no
\* value.
NoActions == [set |-> FALSE, list |-> << >>]
ActionValues == {NoActions} \cup {[set |-> TRUE, list |-> l] : l \in ActionLists}

\* Commands: instances of PlayerMoveCommand, which carry an orientation, and
\* instances of other command types.
NoCommand == [kind |-> "none", orientation |-> "none", actions |-> NoActions]
PlayerMoveCommands ==
  [kind : {"PlayerMove"}, orientation : Quats, actions : ActionValues]
OtherCommands == [kind : {"Other"}, orientation : {"none"}, actions : ActionValues]
Commands == PlayerMoveCommands \cup OtherCommands

\* command.getQuaternion(q): q afterwards.
GetQuaternion(command, q) == command.orientation

\* Whether a JavaScript value passes an if test.
Truthy(actions) == actions.set

\* heldTool.use(command), as the tool sees it: the command and its owner's
\* rotation at the time of the call.
Use(tool, command, rot) == [tool |-> tool, command |-> command, rotation |-> rot]

Done(rot, q, uses, raised) ==
  [rotation |-> rot, tmpQuat |-> q, uses |-> uses, raised |-> raised]

\* targetState.setRotation(q) that writes every entity.
SetRotation_EveryEntity(rot, t, q) == [e \in Entities |-> q]

\* targetState.setRotation(q): copies q into the target's state.
SetRotation(rot, t, q) == [rot EXCEPT ![t] = q]

\* The tool step with heldTool.use called once per action.
UseHeldTool_PerAction(tool, command, rot) ==
  IF tool # NoTool
    THEN [uses |-> [k \in 1..Len(command.actions.list) |-> Use(tool, command, rot)],
          raised |-> FALSE]
    ELSE [uses |-> << >>, raised |-> FALSE]

\* The tool step without the test of heldTool.
UseHeldTool_Unchecked(tool, command, rot) ==
  IF tool # NoTool
    THEN [uses |-> <<Use(tool, command, rot)>>, raised |-> FALSE]
    ELSE [uses |-> << >>, raised |-> TRUE]

\* if (heldTool) heldTool.use(command): the uses made, and whether it raised.
UseHeldTool(tool, command, rot) ==
  IF tool # NoTool
    THEN [uses |-> <<Use(tool, command, rot)>>, raised |-> FALSE]
    ELSE [uses |-> << >>, raised |-> FALSE]

\* executeCommand without the test of target.
ExecuteCommand_NoTargetGuard(c, command, rot, q) ==
  LET t == target[c]
  IN IF command.kind = "PlayerMove"
       THEN IF t = NoTarget
              THEN Done(rot, q, << >>, TRUE)
              ELSE LET q1   == GetQuaternion(command, q)
                       rot1 == SetRotation(rot, t, q1)
                       used == IF Truthy(command.actions)
                                 THEN UseHeldTool(heldTool[t], command, rot1[t])
                                 ELSE [uses |-> << >>, raised |-> FALSE]
                   IN Done(rot1, q1, used.uses, used.raised)
       ELSE Done(rot, q, << >>, FALSE)

\* executeCommand with the tool used before the rotation is set.
ExecuteCommand_UseBeforeRotation(c, command, rot, q) ==
  LET t == target[c]
  IN IF t = NoTarget
       THEN Done(rot, q, << >>, FALSE)
       ELSE IF command.kind = "PlayerMove"
              THEN LET q1   == GetQuaternion(command, q)
                       rot1 == SetRotation(rot, t, q1)
                       used == IF Truthy(command.actions)
                                 THEN UseHeldTool(heldTool[t], command, rot[t])
                                 ELSE [uses |-> << >>, raised |-> FALSE]
                   IN Done(rot1, q1, used.uses, used.raised)
              ELSE Done(rot, q, << >>, FALSE)

\* executeCommand without the instanceof test of the command.
ExecuteCommand_NoKindTest(c, command, rot, q) ==
  LET t == target[c]
  IN IF t = NoTarget
       THEN Done(rot, q, << >>, FALSE)
       ELSE LET q1   == GetQuaternion(command, q)
                rot1 == SetRotation(rot, t, q1)
                used == IF Truthy(command.actions)
                          THEN UseHeldTool(heldTool[t], command, rot1[t])
                          ELSE [uses |-> << >>, raised |-> FALSE]
            IN Done(rot1, q1, used.uses, used.raised)

\* executeCommand with setRotation(q) before command.getQuaternion(q).
ExecuteCommand_ReadsScratchFirst(c, command, rot, q) ==
  LET t == target[c]
  IN IF t = NoTarget
       THEN Done(rot, q, << >>, FALSE)
       ELSE IF command.kind = "PlayerMove"
              THEN LET rot1 == SetRotation(rot, t, q)
                       q1   == GetQuaternion(command, q)
                       used == IF Truthy(command.actions)
                                 THEN UseHeldTool(heldTool[t], command, rot1[t])
                                 ELSE [uses |-> << >>, raised |-> FALSE]
                   IN Done(rot1, q1, used.uses, used.raised)
              ELSE Done(rot, q, << >>, FALSE)

\* executeCommand(command) of controller c, with the entity rotations rot and
\* the scratch quaternion q: the rotations and scratch afterwards, the tool
\* uses made and whether it raised.  The base class's executeCommand has no
\* effect.
ExecuteCommand(c, command, rot, q) ==
  LET t == target[c]
  IN IF t = NoTarget
       THEN Done(rot, q, << >>, FALSE)
       ELSE IF command.kind = "PlayerMove"
              THEN LET q1   == GetQuaternion(command, q)
                       rot1 == SetRotation(rot, t, q1)
                       used == IF Truthy(command.actions)
                                 THEN UseHeldTool(heldTool[t], command, rot1[t])
                                 ELSE [uses |-> << >>, raised |-> FALSE]
                   IN Done(rot1, q1, used.uses, used.raised)
              ELSE Done(rot, q, << >>, FALSE)

\* A controller executes a command; the second run executes it too.  The
\* record of the execution also keeps whether the controller's binding has
\* changed since its previous command, and whether the scratch differed
\* between the two runs when the command started.
CtlExecuteCommand(c, command) ==
  LET main  == ExecuteCommand(c, command, rotation, tmpQuat)
      again == ExecuteCommand(c, command, replay.rotation, replay.tmpQuat)
  IN /\ rotation' = main.rotation
     /\ tmpQuat' = main.tmpQuat
     /\ lastExec' = [controller |-> c, command |-> command, target |-> target[c],
                     uses |-> main.uses, raised |-> main.raised,
                     rebound |-> lastExec.controller = c /\ lastExec.target # target[c],
                     interleaved |-> tmpQuat # replay.tmpQuat]
     /\ replay' = [rotation |-> again.rotation, tmpQuat |-> again.tmpQuat,
                   uses |-> again.uses]
     /\ UNCHANGED <<coordVars, errors, uiVars, target, heldTool>>

\* The simulation binds controller c to entity t, or unbinds it.
SetTarget(c, t) ==
  /\ target[c] # t
  /\ target' = [target EXCEPT ![c] = t]
  /\ UNCHANGED <<coordVars, errors, uiVars, heldTool, rotation, tmpQuat, replay,
                 lastExec>>

\* Entity e picks up a tool, or drops the one it holds.
SetHeldTool(e, tool) ==
  /\ heldTool[e] # tool
  /\ heldTool' = [heldTool EXCEPT ![e] = tool]
  /\ UNCHANGED <<coordVars, errors, uiVars, target, rotation, tmpQuat, replay,
                 lastExec>>

\* A controller outside the replayed sequence executes a player move between
\* two commands and leaves its quaternion in the shared scratch.
Interleave(q) ==
  /\ tmpQuat # q
  /\ tmpQuat' = q
  /\ UNCHANGED <<coordVars, errors, uiVars, target, heldTool, rotation, replay,
                 lastExec>>

CtlInit ==
  /\ launchHost = NoHost
  /\ settingsBound = TRUE
  /\ assertsEnabled = TRUE
  /\ buttonIdGlobal = "unbound"
  /\ settings = [mouseLock |-> FALSE, musicMuted |-> FALSE]
  /\ UiIdle
  /\ graphicsSetup = "idle"
  /\ renderSetup = "idle"
  /\ calls = [graphicsSetup |-> 0, renderSetup |-> 0, setupSucceeded |-> 0,
              setupFailed |-> 0, popSplash |-> 0]
  /\ ticking = FALSE
  /\ screen = "none"
  /\ inGame = FALSE
  /\ gameSession = 0
  /\ attempts = << >>
  /\ errors = << >>
  /\ target \in [Controllers -> Entities \cup {NoTarget}]
  /\ heldTool \in [Entities -> Tools \cup {NoTool}]
  /\ rotation \in [Entities -> Quats]
  /\ tmpQuat = ZeroQuat
  /\ replay = [rotation |-> rotation, tmpQuat |-> ZeroQuat, uses |-> << >>]
  /\ lastExec = NoExec

CtlNext ==
  \/ \E c \in Controllers, command \in Commands : CtlExecuteCommand(c, command)
  \/ \E c \in Controllers, t \in Entities \cup {NoTarget} : SetTarget(c, t)
  \/ \E e \in Entities, tool \in Tools \cup {NoTool} : SetHeldTool(e, tool)
  \/ \E q \in Quats : Interleave(q)

CtlSpec == CtlInit /\ [][CtlNext]_vars

---------------------------------------------------------------------------
\* The lifecycle states of the specification, read off the fields above.

SetupComplete == graphicsSetup = "ok" /\ renderSetup = "ok"

ErrorShown == calls.setupFailed > 0

Ready == screen = "mainMenu" /\ ~inGame

SetupErrors == {k \in 1..Len(errors) : errors[k].location = "setup"}

NetworkErrors == {k \in 1..Len(errors) : errors[k].location = "networking"}

Attempt(i) == attempts[i]

Started == 1..Len(attempts)

\* C1: render state setup (step 2) is called only after the graphics context
\* setup (step 1) has resolved successfully; when step 1 fails step 2 is never
\* called and the setup error is shown.
C1_SetupOrdering ==
  /\ calls.renderSetup > 0 => graphicsSetup = "ok"
  /\ renderSetup # "idle" => graphicsSetup = "ok"
  /\ graphicsSetup = "err" =>
       /\ calls.renderSetup = 0
       /\ ErrorShown
       /\ Cardinality(SetupErrors) = 1

C1_Witness == graphicsSetup = "err" /\ calls.setupFailed = 1 /\ calls.renderSetup = 0

C3_SetupFailureTerminal ==
  /\ calls.graphicsSetup <= 1
  /\ calls.renderSetup <= 1
  /\ calls.setupSucceeded + calls.setupFailed <= 1
  /\ ErrorShown =>
       /\ screen = "none"
       /\ calls.popSplash = 1
       /\ Cardinality(SetupErrors) = 1
       /\ Len(errors) = 1
       /\ calls.setupSucceeded = 0
       /\ ~ticking
       /\ attempts = << >>
       /\ ~inGame
       /\ ~ENABLED Next

C3_Witness == renderSetup = "err" /\ ErrorShown /\ graphicsSetup = "ok"

\* C4: the step in which render state setup succeeds dismisses the splash (once
\* in the whole run), and starts a connect attempt for the launch host if one
\* was given (the connecting indicator is shown, no main menu) and shows the
\* main menu with no attempt otherwise.
C4_SetupSuccessNext ==
  /\ [](calls.popSplash <= 1)
  /\ [][(renderSetup = "pending" /\ renderSetup' = "ok") =>
          /\ calls'.popSplash = 1
          /\ screen' # "splash"
          /\ ticking'
          /\ IF launchHost # NoHost
               THEN /\ Len(attempts') = 1
                    /\ attempts'[1].address = launchHost
                    /\ attempts'[1].log[1] = "showConnecting"
                    /\ screen' # "mainMenu"
               ELSE /\ attempts' = << >>
                    /\ Ready']_vars

C4_Witness ==
  /\ renderSetup = "ok"
  /\ launchHost # NoHost
  /\ Len(attempts) = 1
  /\ Attempt(1).origin = "launch"
  /\ Attempt(1).dialog = "shown"
  /\ Attempt(1).connector = "remote"

HasEmptyPart(address) ==
  address.scheme = "" \/ address.host = "" \/ address.port = ""

\* C5: an attempt whose address has an empty scheme, host or port fails with
\* InvalidAddress, invokes no connector, and its failure handler dismisses the
\* indicator and shows the connection-failed error.
C5_InvalidAddressRejected ==
  \A i \in Started :
    HasEmptyPart(Attempt(i).address) =>
      /\ Attempt(i).deferred = "err"
      /\ Attempt(i).arg.kind = "InvalidAddress"
      /\ Attempt(i).connector = "none"
      /\ Attempt(i).dialog = "canceled"
      /\ Has(Attempt(i).log, "showConnectionFailed")

\* C6: an attempt whose address has a scheme, a host and a port invokes the
\* remote connector alone for "ws", the local connector alone for "local", and
\* for any other scheme fails with UnsupportedScheme and invokes no connector.
C6_SchemeDispatch ==
  \A i \in Started :
    ~HasEmptyPart(Attempt(i).address) =>
      CASE Attempt(i).address.scheme = "ws" ->
             /\ Attempt(i).connector = "remote"
             /\ ~Has(Attempt(i).log, "connectLocal")
        [] Attempt(i).address.scheme = "local" ->
             /\ Attempt(i).connector = "local"
             /\ ~Has(Attempt(i).log, "connectRemote")
        [] OTHER ->
             /\ Attempt(i).connector = "none"
             /\ Attempt(i).arg.kind = "UnsupportedScheme"

\* C7: every connect attempt that is started eventually has a terminal outcome
\* and its connecting indicator dismissed.
C7_IndicatorEventuallyDismissed ==
  \A i \in 1..MaxAttempts :
    (i \in Started) ~>
      (/\ i \in Started
       /\ Attempt(i).deferred \in {"ok", "err"}
       /\ Attempt(i).dialog = "canceled")

Count(log, e) == Cardinality({k \in 1..Len(log) : log[k] = e})

Pos(log, e) == CHOOSE k \in 1..Len(log) : log[k] = e

Transitions == {"enterGame", "setGameScreen", "showConnectionFailed"}

\* C8: an attempt with a terminal outcome has had its indicator canceled
\* exactly once, before entering the game or showing the connection-failed
\* error.
C8_IndicatorCanceledOnce ==
  \A i \in Started :
    Attempt(i).deferred \in {"ok", "err"} =>
      /\ Count(Attempt(i).log, "cancel") = 1
      /\ \A e \in Transitions :
           Has(Attempt(i).log, e) =>
             Pos(Attempt(i).log, "cancel") < Pos(Attempt(i).log, e)

PendingConnectors ==
  {i \in Started : Attempt(i).connector # "none" /\ Attempt(i).deferred = "pending"}

\* C9: at most one connector is pending at any time.
C9_OneAttemptAtATime == Cardinality(PendingConnectors) <= 1

FailsNow(i) ==
  /\ i \in Started'
  /\ attempts'[i].deferred = "err"
  /\ (i \in Started => Attempt(i).deferred # "err")

\* C10: the step in which a connect attempt fails leaves the indicator
\* dismissed, exactly one more error shown, carrying the failure reason, and
\* the coordinator in Ready (main menu shown, not in game).
C10_FailureReturnsToReady ==
  [][\A i \in 1..MaxAttempts :
       FailsNow(i) =>
         /\ attempts'[i].dialog = "canceled"
         /\ errors' = Append(errors, [location |-> "networking",
                                      arg |-> attempts'[i].arg])
         /\ Ready']_vars

SucceedsNow(i) ==
  /\ i \in Started
  /\ Attempt(i).deferred # "ok"
  /\ attempts'[i].deferred = "ok"

\* C11: the step in which a connector reports success sets the in-game flag
\* and shows the game screen built with the returned session; the flag is set
\* in no other step; and whenever the flag is set the game screen is shown
\* with the session of a succeeded attempt.
C11_SuccessEntersGame ==
  /\ [](inGame => /\ screen = "game"
                  /\ gameSession \in Started
                  /\ Attempt(gameSession).deferred = "ok")
  /\ [][\A i \in 1..MaxAttempts :
          SucceedsNow(i) => (inGame' /\ screen' = "game" /\ gameSession' = i)]_vars
  /\ [][(~inGame /\ inGame') => \E i \in 1..MaxAttempts : SucceedsNow(i)]_vars

\* C13: gotoMainMenuScreen ends in Ready (main menu shown, flag clear) whether
\* or not the game was running; the flag is cleared in no other step, and the
\* main menu is never shown with the flag set.
C13_MainMenuExitsGame ==
  /\ [](screen = "mainMenu" => ~inGame)
  /\ [][GotoMainMenuScreen => (Ready' /\ gameSession' = 0)]_vars
  /\ [][(inGame /\ ~inGame') => screen' = "mainMenu"]_vars

C13_Witness ==
  /\ Ready
  /\ gameSession = 0
  /\ \E i \in Started : Has(Attempt(i).log, "enterGame")

\* isInGame.
IsInGame == inGame

\* The lifecycle state InGame: the game screen is the one shown.
InGame == screen = "game"

\* C12: isInGame() is true exactly when the lifecycle state is InGame, and
\* toggleFullscreen, showSettingsPopup, showHelpPopup and showErrorPopup, with
\* the handlers the popups register, leave the flag as it was.
C12_FlagIffInGame ==
  /\ [](IsInGame <=> InGame)
  /\ [][(\/ \E supportsLocking \in BOOLEAN : ToggleFullscreen(supportsLocking)
         \/ ShowSettingsPopup
         \/ \E outcome \in {"callback", "errback"}, buttonid \in ButtonIds :
              SettingsResolved(outcome, buttonid)
         \/ ShowHelpPopup
         \/ \E outcome \in {"callback", "errback"} : HelpResolved(outcome)
         \/ ShowErrorPopup("networking", "disconnected"))
        => inGame' = inGame]_vars

C12_Witness ==
  /\ IsInGame
  /\ fullScreen
  /\ popups.settings > 0
  /\ popups.help > 0
  /\ \E k \in 1..Len(errors) : errors[k].arg.kind = "Reported"

\* The target of controller c is bound.
Bound(c) == target[c] # NoTarget

\* This step is an executeCommand: of controller lastExec'.controller, with
\* command lastExec'.command.
Executes ==
  /\ lastExec'.controller \in Controllers
  /\ CtlExecuteCommand(lastExec'.controller, lastExec'.command)

\* C14: a command executed on a controller with no bound target changes no
\* rotation, no held tool and the scratch not at all, uses no tool and does
\* not raise; and no execution, whatever is bound or held, raises.
C14_UnboundIsNoOp ==
  /\ [](~lastExec.raised)
  /\ [][(Executes /\ ~Bound(lastExec'.controller)) =>
          /\ rotation' = rotation
          /\ heldTool' = heldTool
          /\ tmpQuat' = tmpQuat
          /\ lastExec'.uses = << >>]_vars

C14_Witness ==
  /\ lastExec.command.kind = "PlayerMove"
  /\ Len(lastExec.command.actions.list) = 1
  /\ lastExec.target = NoTarget
  /\ lastExec.uses = << >>
  /\ \E e \in Entities : heldTool[e] # NoTool

\* This step is a player move executed by a controller whose target holds a
\* tool.
UsesTool ==
  /\ Executes
  /\ Bound(lastExec'.controller)
  /\ heldTool[target[lastExec'.controller]] # NoTool
  /\ lastExec'.command.kind = "PlayerMove"

\* C15: the held tool's use is invoked once per action of the command, with
\* the command as context, and not at all for a command with zero actions.
C15_UsePerAction ==
  [][UsesTool =>
       /\ Len(lastExec'.uses) = Len(lastExec'.command.actions.list)
       /\ \A k \in 1..Len(lastExec'.uses) :
            lastExec'.uses[k].command = lastExec'.command]_vars

\* C15, as the code has it: the held tool's use is invoked exactly once per
\* player move whose actions field holds a list, however many actions the
\* list has, with the command as context; and not at all when the field
\* holds no list.
C15_UseOncePerCommand ==
  [][UsesTool =>
       lastExec'.uses =
         IF Truthy(lastExec'.command.actions)
           THEN <<Use(heldTool[target[lastExec'.controller]], lastExec'.command,
                      lastExec'.command.orientation)>>
           ELSE << >>]_vars

C15_Witness ==
  /\ lastExec.command.kind = "PlayerMove"
  /\ Len(lastExec.command.actions.list) = MaxActions
  /\ Len(lastExec.uses) = 1
  /\ lastExec.uses[1].command = lastExec.command

\* C16: a player move with one action, executed on a bound target that holds
\* no tool, sets the target's rotation to the command's orientation, uses no
\* tool and does not raise.
C16_NoToolDropsActions ==
  [][(/\ Executes
      /\ Bound(lastExec'.controller)
      /\ heldTool[target[lastExec'.controller]] = NoTool
      /\ lastExec'.command.kind = "PlayerMove"
      /\ Len(lastExec'.command.actions.list) = 1) =>
       /\ rotation'[target[lastExec'.controller]] = lastExec'.command.orientation
       /\ lastExec'.uses = << >>
       /\ ~lastExec'.raised]_vars

C16_Witness ==
  /\ lastExec.command.kind = "PlayerMove"
  /\ Len(lastExec.command.actions.list) = 1
  /\ lastExec.target # NoTarget
  /\ heldTool[lastExec.target] = NoTool
  /\ rotation[lastExec.target] = lastExec.command.orientation
  /\ lastExec.uses = << >>
  /\ ~lastExec.raised

\* C17: a player move executed on a bound target leaves the target's rotation
\* equal to the command's orientation whatever it was; executing it a second
\* time changes no rotation; every tool use sees the rotation already
\* written; and a command of a kind without orientation changes no rotation.
C17_OrientationReplaced ==
  /\ [][(Executes /\ Bound(lastExec'.controller)) =>
          IF lastExec'.command.kind = "PlayerMove"
            THEN rotation'[target[lastExec'.controller]] = lastExec'.command.orientation
            ELSE rotation' = rotation]_vars
  /\ [](lastExec.controller \in Controllers =>
          LET once  == ExecuteCommand(lastExec.controller, lastExec.command,
                                      rotation, tmpQuat)
              twice == ExecuteCommand(lastExec.controller, lastExec.command,
                                      once.rotation, once.tmpQuat)
          IN twice.rotation = once.rotation)
  /\ [](\A k \in 1..Len(lastExec.uses) :
          lastExec.uses[k].rotation = lastExec.uses[k].command.orientation)

C17_Witness ==
  /\ lastExec.command.kind = "PlayerMove"
  /\ lastExec.target # NoTarget
  /\ rotation[lastExec.target] = lastExec.command.orientation
  /\ lastExec.uses # << >>
  /\ lastExec.uses[1].rotation = lastExec.command.orientation
  /\ \E e \in Entities : rotation[e] # lastExec.command.orientation

\* C18: the same commands applied to a second copy of the same starting
\* state leave the same rotations and make the same tool uses, also when
\* other executions have changed the shared scratch in between.
C18_Deterministic ==
  /\ replay.rotation = rotation
  /\ replay.uses = lastExec.uses

C18_Witness ==
  /\ lastExec.interleaved
  /\ lastExec.command.kind = "PlayerMove"
  /\ lastExec.target # NoTarget
  /\ lastExec.uses # << >>
  /\ replay.rotation = rotation

\* C19: an execution acts on the target bound when it runs: the rotation of
\* every other entity, the held tools and the bindings stay as they were,
\* and any tool used is the one that target holds.
C19_OnlyCurrentTarget ==
  [][Executes =>
       /\ lastExec'.target = target[lastExec'.controller]
       /\ \A e \in Entities :
            e # target[lastExec'.controller] => rotation'[e] = rotation[e]
       /\ heldTool' = heldTool
       /\ target' = target
       /\ \A k \in 1..Len(lastExec'.uses) :
            /\ Bound(lastExec'.controller)
            /\ lastExec'.uses[k].tool = heldTool[target[lastExec'.controller]]]_vars

C19_Witness ==
  /\ lastExec.rebound
  /\ lastExec.command.kind = "PlayerMove"
  /\ lastExec.target # NoTarget
  /\ rotation[lastExec.target] = lastExec.command.orientation
  /\ \E e \in Entities : rotation[e] # lastExec.command.orientation

\* C20: when the settings dialog resolves, refreshSettings_ is applied exactly
\* when the dialog's result is "save".
C20_RefreshIffSave ==
  lastPopup.kind = "settings" =>
    (lastPopup.refreshed <=>
       (lastPopup.outcome = "callback" /\ lastPopup.buttonid = "save"))

\* C21: enterGame_ is never called with the flag already set, so its
\* assertion never fails and the flag is never set twice without an exit in
\* between; exitGame_ is called with the flag set only.
C21_AssertionsHold ==
  /\ [][\A i \in 1..MaxAttempts : SucceedsNow(i) => ~inGame]_vars
  /\ [](\A i \in Started : ~Has(Attempt(i).log, "assertFailed"))

\* C22: a popup opened in game disables input, and when a popup's dialog
\* resolves in game, with whatever outcome, postPopup_ runs and input is
\* enabled.
C22_PopupPairing ==
  /\ [][(OpenPopups' > OpenPopups /\ inGame) => ~inputEnabled']_vars
  /\ [][(OpenPopups' < OpenPopups /\ inGame) =>
          (lastPopup'.post /\ inputEnabled')]_vars

\* C23: a command that is not a player move, executed on a bound target,
\* changes no rotation, uses no tool and does not raise, whether or not the
\* target holds a tool.
C23_OtherKindNoEffect ==
  [][(/\ Executes
      /\ Bound(lastExec'.controller)
      /\ lastExec'.command.kind # "PlayerMove") =>
       /\ rotation' = rotation
       /\ lastExec'.uses = << >>
       /\ ~lastExec'.raised]_vars

C23_Witness ==
  /\ lastExec.command.kind = "Other"
  /\ Len(lastExec.command.actions.list) = 1
  /\ lastExec.target # NoTarget
  /\ heldTool[lastExec.target] # NoTool
  /\ rotation[lastExec.target] \in Quats
  /\ lastExec.uses = << >>

=============================================================================
